---- MODULE Spec2Model ----
(***************************************************************************)
(* Word-wrapping / line-truncating format stream of lib/argp-fmtstream.c.  *)
(*                                                                         *)
(* The stream is one heap buffer addressed by offsets from fs->buf, the    *)
(* cursors p, end, point_offs, point_col, the three margins and the sink.  *)
(* Every function of the file is a small-step machine: one action per      *)
(* straight-line block or loop iteration, sequenced by pc and a stack of   *)
(* return labels, because two of the loops need not terminate.             *)
(*                                                                         *)
(* Memory model.  Memory the program never stored to (fresh malloc/realloc *)
(* memory, memory around the allocation) holds one unknown byte value,     *)
(* fill: indeterminate (U) until the code first compares such a byte, then *)
(* any of the values the comparison tells apart.  A store outside the      *)
(* allocation lands in foreign memory (ub becomes TRUE); any access        *)
(* outside the allocation may instead trap (pc = "crashed").  A memmove,   *)
(* fwrite or memchr that runs off the address space always traps.          *)
(***************************************************************************)
EXTENDS Integers, Sequences, FiniteSets, TLC

(*************************** program constants *****************************)
INIT_BUF_SIZE == 200
PRINTF_SIZE_GUESS == 150
UC_BREAK_UNDEFINED == 0
UC_BREAK_POSSIBLE == 1
UC_BREAK_HYPHENATION == 2
UC_BREAK_MANDATORY == 3

(******************************* bounds ************************************)
\* size_t / ssize_t are modelled SIZE_BITS wide (scaled from 64).
SIZE_BITS == 16
\* the allocator refuses requests above MaxAlloc bytes
MaxAlloc == 420
\* number of appends a run performs
MaxAppends == 2
\* length of the exhaustively enumerated short texts
MaxLen == 2
\* loop iterations of uwl_shim taken in one step
UwlChunk == 64
\* the memory mapped around the allocation: an access further than Slack
\* bytes outside it always traps
Slack == 1
\* a failing sink accepts nothing, or all but at most MaxUnwritten bytes
MaxUnwritten == 1
\* consecutive update calls that are counted
MaxUpdates == 2
\* steps of a run that is followed to its end inside one property
MaxSteps == 40

(************************* integer conversions *****************************)
RECURSIVE Pow2(_)
Pow2(n) == IF n = 0 THEN 1 ELSE 2 * Pow2(n - 1)

SIZE_MOD == Pow2(SIZE_BITS)

\* value of an expression converted to size_t
Sz(x) == x % SIZE_MOD

\* a size_t reinterpreted as ssize_t / ptrdiff_t / int, and the offset that
\* results from adding a size_t to a pointer
Off(x) == IF Sz(x) >= SIZE_MOD \div 2 THEN Sz(x) - SIZE_MOD ELSE Sz(x)

\* a length no memmove, fwrite or memchr can cover inside the address space
Wrapped(n) == Sz(n) >= SIZE_MOD \div 2

Min(a, b) == IF a < b THEN a ELSE b
Max(a, b) == IF a > b THEN a ELSE b

(********************************* bytes ***********************************)
NL == "\n"
SP == " "
TAB == "\t"
NUL == "NUL"
\* the byte value of memory never stored to: not compared yet
U == "U"
\* ... compared unequal to '\n', not classified yet
G == "G"
\* ... some graphic character
GARB == "#"

\* wcwidth() of the bytes the model uses: control characters have no width
wcwidth(c) == IF c = NL \/ c = TAB THEN -1 ELSE 1

(******************************** state ************************************)
VARIABLES
  buf, p, end, point_offs, point_col,   \* struct argp_fmtstream (offsets from buf)
  lmargin, rmargin, wmargin,
  stream,                               \* every byte the sink accepted, in order
  pc, stack,                            \* program position, return labels
  queue, proc_len, lns, col, i,         \* locals of __argp_fmtstream_update
  uwl_i, cur_col, last_option,          \* locals of uwl_shim (its p is lns)
  suffix, space_needed, lap_queue,      \* locals of line_at_point
  amount, ens_rv, errno,                \* __argp_fmtstream_ensure: argument, result
  fmt, size_guess, tries,               \* __argp_fmtstream_printf: formatted text, guess
  ub, appends,                          \* out-of-block access seen, appends made
  call, rv, input, updates, faulted,    \* history: the client's call and its result,
                                        \* text appended, update calls since the last
                                        \* other call, a write or an allocation failed
  fill                                  \* the byte value of memory never stored to

vars == <<buf, p, end, point_offs, point_col, lmargin, rmargin, wmargin, stream,
          pc, stack, queue, proc_len, lns, col, i, uwl_i, cur_col, last_option, suffix, space_needed, lap_queue,
          amount, ens_rv, errno, fmt, size_guess, tries, ub, appends,
          call, input, rv, updates, faulted, fill>>

(******************************** memory ***********************************)
\* The allocation [buf, end) is the sequence b of the bytes stored so far, at
\* offsets 0 .. Len(b)-1; every other byte holds fill.

\* *(buf + j) read
Rd(b, j) == IF 0 <= j /\ j < Len(b) THEN b[j + 1] ELSE fill

\* an access to [lo, lo+n) of an allocation of e bytes: 0 inside it,
\* 1 outside it in mapped memory, 2 in unmapped memory
Acc(e, lo, n) ==
  IF n = 0 \/ (0 <= lo /\ lo + n <= e) THEN 0
  ELSE IF -Slack <= lo /\ lo + n <= e + Slack THEN 1
  ELSE 2

\* the worst of the accesses L
Worst(L) == CHOOSE m \in L : \A x \in L : x <= m

\* the offsets [lo, lo+n)
Span(lo, n) == lo..(lo + n - 1)

\* the allocation after the stores val[j] to the offsets [lo, lo+n); a store
\* outside [0, e) does not reach it
Store(b, e, lo, n, val) ==
  LET hi == IF n <= 0 THEN Len(b) ELSE Max(Len(b), Min(lo + n, e))
  IN  [k \in 1..hi |-> IF lo <= k - 1 /\ k - 1 < lo + n THEN val[k - 1] ELSE Rd(b, k - 1)]

\* buf[j] = c
Wr(b, e, j, c) == Store(b, e, j, 1, [x \in Span(j, 1) |-> c])

\* memmove (buf + dst, buf + src, n), n not wrapped
MemMove(b, e, dst, src, n) ==
  Store(b, e, dst, n, [x \in Span(dst, n) |-> Rd(b, src + (x - dst))])

\* memcpy (buf + dst, s, Len(s))
MemCpy(b, e, dst, s) ==
  Store(b, e, dst, Len(s), [x \in Span(dst, Len(s)) |-> s[x - dst + 1]])

\* the bytes [lo, lo+n) as fwrite reads them
Bytes(b, lo, n) == [k \in 1..n |-> Rd(b, lo + k - 1)]

(******************************** memchr ***********************************)
\* one past the last offset memchr (buf + s, '\n', n) is followed to; a
\* wrapped n lets the scan run on into the memory never stored to
ScanEnd(b, s, n) == IF Wrapped(n) THEN Max(s, Len(b)) + 1 ELSE s + n

\* first offset in [s, t) holding '\n', or t
FirstNL(b, s, t) ==
  LET H == {j \in s..(t - 1) : Rd(b, j) = NL}
  IN  IF H = {} THEN t ELSE CHOOSE j \in H : \A k \in H : j <= k

\* memchr (buf + s, '\n', n) compares a byte whose value is c
Compares(b, s, n, c) ==
  \E j \in s..(FirstNL(b, s, ScanEnd(b, s, n)) - 1) : Rd(b, j) = c

\* memchr (buf + s, '\n', n): the hit, or none; a wrapped scan that meets no
\* '\n' runs off the address space
MemChr(b, e, s, n) ==
  LET t == ScanEnd(b, s, n)
      f == FirstNL(b, s, t)
  IN  IF f < t
        THEN [found |-> TRUE, nl |-> f, acc |-> Acc(e, s, f - s + 1), trap |-> FALSE]
        ELSE [found |-> FALSE, nl |-> 0, acc |-> Acc(e, s, t - s), trap |-> Wrapped(n)]

(**************************** break classifier *****************************)
\* one iteration of "while (i < n)" in uwl_shim on the character c = s[i]:
\* the labels, last_option and cur_col it leaves (a NUL ends the loop: i = n)
uwl_iter(c, n, width, k, cc, lo, lab) ==
  IF c = NUL THEN [i |-> n, cur_col |-> cc, last_option |-> lo, lab |-> lab]
  ELSE IF c = NL
    THEN [i |-> k + 1, cur_col |-> Sz(0 + wcwidth(c)), last_option |-> 0,
          lab |-> [lab EXCEPT ![k + 1] = UC_BREAK_MANDATORY]]
  ELSE IF c = SP \/ c = TAB
    THEN [i |-> k + 1, cur_col |-> Sz(cc + wcwidth(c)), last_option |-> k, lab |-> lab]
  ELSE IF cc >= Sz(width) /\ lo # 0
    THEN [i |-> k + 1, cur_col |-> Sz(0 + wcwidth(c)), last_option |-> 0,
          lab |-> [lab EXCEPT ![lo + 1] = UC_BREAK_POSSIBLE]]
  ELSE [i |-> k + 1, cur_col |-> Sz(cc + wcwidth(c)), last_option |-> lo, lab |-> lab]

\* the value uwl_shim returns: the final running column, as an int
uwl_return(cc) == Off(cc)

\* the current state as a record; the step operators below map it to the set
\* of its successors
cur ==
  [buf |-> buf, p |-> p, end |-> end, point_offs |-> point_offs, point_col |-> point_col,
   lmargin |-> lmargin, rmargin |-> rmargin, wmargin |-> wmargin, stream |-> stream,
   pc |-> pc, stack |-> stack, queue |-> queue, proc_len |-> proc_len, lns |-> lns,
   col |-> col, i |-> i, uwl_i |-> uwl_i, cur_col |-> cur_col,
   last_option |-> last_option, suffix |-> suffix, space_needed |-> space_needed,
   lap_queue |-> lap_queue, amount |-> amount, ens_rv |-> ens_rv, errno |-> errno,
   fmt |-> fmt, size_guess |-> size_guess, tries |-> tries, ub |-> ub,
   appends |-> appends, input |-> input, rv |-> rv, updates |-> updates,
   faulted |-> faulted, fill |-> fill, call |-> call]

Becomes(T) ==
  /\ buf' = T.buf /\ p' = T.p /\ end' = T.end /\ point_offs' = T.point_offs
  /\ point_col' = T.point_col /\ lmargin' = T.lmargin /\ rmargin' = T.rmargin
  /\ wmargin' = T.wmargin /\ stream' = T.stream /\ pc' = T.pc /\ stack' = T.stack
  /\ queue' = T.queue /\ proc_len' = T.proc_len /\ lns' = T.lns /\ col' = T.col
  /\ i' = T.i /\ uwl_i' = T.uwl_i /\ cur_col' = T.cur_col
  /\ last_option' = T.last_option /\ suffix' = T.suffix /\ space_needed' = T.space_needed
  /\ lap_queue' = T.lap_queue /\ amount' = T.amount /\ ens_rv' = T.ens_rv
  /\ errno' = T.errno /\ fmt' = T.fmt /\ size_guess' = T.size_guess /\ tries' = T.tries
  /\ ub' = T.ub /\ appends' = T.appends
  /\ input' = T.input /\ rv' = T.rv /\ updates' = T.updates /\ faulted' = T.faulted
  /\ fill' = T.fill /\ call' = T.call

\* return to the caller: a function of this file, or the client, which sees
\* the result in rv before it goes on (pc = "return")
Ret(S) ==
  IF Head(S.stack) = "ret_ensure"
    THEN [S EXCEPT !.pc = "return", !.stack = <<>>, !.rv = S.ens_rv]
  ELSE IF Head(S.stack) = "ret_update"
    THEN [S EXCEPT !.pc = "idle", !.stack = <<>>, !.call = "none",
                    !.updates = Min(S.updates + 1, MaxUpdates)]
  ELSE [S EXCEPT !.pc = Head(S.stack), !.stack = Tail(S.stack)]

\* the process is killed: its memory is gone, the sink keeps what it accepted
Crash(S) ==
  [S EXCEPT !.pc = "crashed", !.stack = <<>>, !.buf = <<>>, !.p = 0, !.end = 0,
            !.point_offs = 0, !.point_col = 0, !.queue = 0, !.proc_len = 0,
            !.lns = <<>>, !.col = 0, !.i = 0, !.uwl_i = 0, !.cur_col = 0,
            !.last_option = 0, !.suffix = <<>>, !.space_needed = 0,
            !.lap_queue = 0, !.amount = 0, !.ens_rv = 0, !.fmt = <<>>,
            !.size_guess = 0, !.tries = 0, !.ub = TRUE, !.rv = 0,
            !.errno = "0", !.fill = U]

\* the unknown byte value, so far c, turns out to be d
Resolve(S, c, d) ==
  [S EXCEPT !.fill = IF S.fill = c THEN d ELSE S.fill,
            !.buf = [k \in DOMAIN S.buf |-> IF S.buf[k] = c THEN d ELSE S.buf[k]]]

\* a step whose worst access was a: outside the allocation it traps or, in
\* mapped memory, goes on
MayTrap(S, T, a) ==
  IF a = 0 THEN {T} ELSE IF a = 1 THEN {Crash(S), [T EXCEPT !.ub = TRUE]} ELSE {Crash(S)}

(***************************** line_at_point *******************************)
\* entry of line_at_point (fs, sfx): space_needed and queue are fixed here
line_at_point(S, sfx) ==
  [S EXCEPT !.pc = "line_at_point", !.suffix = sfx,
            !.space_needed = Sz(Sz(S.wmargin) + Len(sfx)),
            !.lap_queue = Off(S.point_offs)]

\* one iteration of "while (fs->p + space_needed > fs->end)"
lap_reclaim(S) ==
  IF Compares(S.buf, 0, S.point_offs, U) THEN {Resolve(S, U, c) : c \in {NL, G}}
  ELSE
    LET o == MemChr(S.buf, S.end, 0, S.point_offs) IN
    IF o.trap THEN {Crash(S)}
    ELSE
      LET nl   == IF o.found THEN o.nl ELSE S.lap_queue - 1
          b1   == IF o.found THEN S.buf ELSE Wr(S.buf, S.end, nl, NL)
          out  == (IF nl > 0 THEN Bytes(b1, 0, nl) ELSE <<>>) \o <<NL>>
          k    == nl + 1
          b2   == MemMove(b1, S.end, 0, nl + 1, k)
          oob  == Worst({o.acc,
                         IF o.found THEN 0 ELSE Acc(S.end, nl, 1),
                         IF nl > 0 THEN Acc(S.end, 0, nl) ELSE 0,
                         Acc(S.end, 0, k), Acc(S.end, nl + 1, k)})
          W    == [S EXCEPT !.stream = S.stream \o out]
          T    == [W EXCEPT !.buf = b2, !.p = S.p - k,
                            !.point_offs = Sz(S.point_offs - k)]
      IN  IF Wrapped(k) THEN {Crash(W)} ELSE MayTrap(W, T, oob)

\* the insertion after the loop: shift the tail, store suffix and margin
lap_insert(S) ==
  LET n    == Sz(S.p - S.lap_queue)
      dst  == S.lap_queue + Off(S.space_needed)
      b1   == MemMove(S.buf, S.end, dst, S.lap_queue, n)
      b2   == MemCpy(b1, S.end, S.lap_queue, S.suffix)
      pt1  == Sz(S.point_offs + Len(S.suffix))
      cnt  == IF S.point_col # -1 THEN S.lmargin ELSE 0
      b3   == Store(b2, S.end, Off(pt1), cnt, [x \in Span(Off(pt1), cnt) |-> SP])
      oob  == Worst({Acc(S.end, dst, n), Acc(S.end, S.lap_queue, n),
                     Acc(S.end, S.lap_queue, Len(S.suffix)),
                     Acc(S.end, Off(pt1), cnt)})
      T    == Ret([S EXCEPT !.buf = b3, !.point_offs = Sz(pt1 + cnt),
                            !.point_col = S.lmargin, !.suffix = <<>>,
                            !.space_needed = 0, !.lap_queue = 0])
  IN  IF Wrapped(n) THEN {Crash(S)} ELSE MayTrap(S, T, oob)

lap_step(S) ==
  IF S.p + Off(S.space_needed) > S.end THEN lap_reclaim(S) ELSE lap_insert(S)

(************************ __argp_fmtstream_update **************************)
\* locals of update released
upd_done(S) == [S EXCEPT !.queue = 0, !.proc_len = 0, !.lns = <<>>, !.col = 0, !.i = 0]

\* uwl_shim (queue, proc_len, rmargin - wmargin, start_column, ..., lns): up
\* to UwlChunk iterations of its loop, or its return into the for loop of update
RECURSIVE uwl_run(_, _, _, _)
uwl_run(S, width, r, left) ==
  IF left = 0 \/ r.i >= S.proc_len THEN r
  ELSE uwl_run(S, width,
               uwl_iter(Rd(S.buf, S.queue + r.i), S.proc_len, width,
                        r.i, r.cur_col, r.last_option, r.lab),
               left - 1)

\* the span [queue, queue + proc_len) holds a byte whose value is c
SpanHas(S, c) == \E k \in 0..(S.proc_len - 1) : Rd(S.buf, S.queue + k) = c

uwl_step(S) ==
  LET width == Off(Sz(S.rmargin - S.wmargin))
      r     == uwl_run(S, width,
                       [i |-> S.uwl_i, cur_col |-> S.cur_col,
                        last_option |-> S.last_option, lab |-> S.lns],
                       UwlChunk)
  IN  IF S.pc = "crashed" THEN {S}
      ELSE IF SpanHas(S, U) THEN {Resolve(S, U, c) : c \in {NL, G}}
      ELSE IF SpanHas(S, G) THEN {Resolve(S, G, c) : c \in {GARB, SP, NUL}}
      ELSE IF r.i < S.proc_len
        THEN {[S EXCEPT !.uwl_i = r.i, !.cur_col = r.cur_col,
                        !.last_option = r.last_option, !.lns = r.lab]}
      ELSE {[S EXCEPT !.pc = "wrap_loop", !.col = uwl_return(r.cur_col), !.i = 0,
                      !.lns = r.lab, !.uwl_i = 0, !.cur_col = 0, !.last_option = 0]}

\* entry: queue, proc_len, the early return, and in wrap mode the classifier
update_enter(S) ==
  LET q     == Off(S.point_offs)
      n     == Sz(S.p - q)
      start == IF S.point_col = -1 THEN 0 ELSE S.point_col
  IN  IF q >= S.p THEN {Ret(S)}
      ELSE IF S.wmargin = -1
        THEN {[S EXCEPT !.pc = "trunc_loop", !.queue = q, !.proc_len = n]}
      ELSE
        {Ret([S EXCEPT !.faulted = TRUE])}        \* malloc returned NULL
        \cup
        UNION {uwl_step(T) :
                 T \in MayTrap(S, [S EXCEPT !.pc = "uwl_shim", !.queue = q, !.proc_len = n,
                                            !.lns = [k \in 1..n |-> UC_BREAK_UNDEFINED],
                                            !.uwl_i = 0, !.cur_col = Sz(start),
                                            !.last_option = 0],
                               Acc(S.end, q, n))}

\* first index >= k of a label other than UC_BREAK_UNDEFINED, or n
NextBreak(l, k, n) ==
  LET H == {j \in k..(n - 1) : l[j + 1] # UC_BREAK_UNDEFINED}
  IN  IF H = {} THEN n ELSE CHOOSE j \in H : \A m \in H : j <= m

\* a faulty for loop: the bytes after the last break are not stepped over
wrap_step_stay(S) ==
  LET j   == NextBreak(S.lns, S.i, S.proc_len)
      pt1 == Sz(S.point_offs + (j - S.i))
  IN  IF j >= S.proc_len
        THEN {Ret(upd_done([S EXCEPT !.point_col = S.col]))}
      ELSE
        LET lab == S.lns[j + 1]
            S1  == [S EXCEPT !.i = j + 1, !.stack = <<"wrap_loop">> \o S.stack,
                             !.point_offs = IF lab = UC_BREAK_MANDATORY
                                              THEN Sz(pt1 + 1) ELSE pt1]
        IN  {line_at_point(S1, IF lab = UC_BREAK_HYPHENATION THEN <<"-", NL>>
                               ELSE IF lab = UC_BREAK_POSSIBLE THEN <<NL>>
                               ELSE <<>>)}

\* the for loop of wrap mode, run up to and including its next break
wrap_step(S) ==
  LET j   == NextBreak(S.lns, S.i, S.proc_len)
      pt1 == Sz(S.point_offs + (j - S.i))
  IN  IF j >= S.proc_len
        THEN {Ret(upd_done([S EXCEPT !.point_offs = pt1, !.point_col = S.col]))}
      ELSE
        LET lab == S.lns[j + 1]
            S1  == [S EXCEPT !.i = j + 1, !.stack = <<"wrap_loop">> \o S.stack,
                             !.point_offs = IF lab = UC_BREAK_MANDATORY
                                              THEN Sz(pt1 + 1) ELSE pt1]
        IN  {line_at_point(S1, IF lab = UC_BREAK_HYPHENATION THEN <<"-", NL>>
                               ELSE IF lab = UC_BREAK_POSSIBLE THEN <<NL>>
                               ELSE <<>>)}

\* one iteration of the truncate-mode while loop
trunc_step(S) ==
  LET d      == Sz(S.rmargin - S.point_col)
      o      == MemChr(S.buf, S.end, Off(S.point_offs), d)
      pt1    == Sz(S.point_offs + d)
      start2 == Off(Sz(pt1 + S.rmargin - S.point_col))
      n2     == Sz(S.p - pt1)
      o2     == MemChr(S.buf, S.end, start2, n2)
      pt2    == Sz(pt1 + 1)
      b2     == Wr(S.buf, S.end, Off(pt1), NL)
      oobw   == Worst({o.acc, o2.acc, Acc(S.end, Off(pt1), 1)})
      n3     == Sz(o2.nl + 1 - pt2)
      b3     == MemMove(b2, S.end, Off(pt2), o2.nl + 1, n3)
  IN  IF ~(Off(S.point_offs) < S.p) THEN {Ret(upd_done(S))}
      ELSE IF Compares(S.buf, Off(S.point_offs), d, U)
              \/ (~o.found /\ Compares(S.buf, start2, n2, U))
        THEN {Resolve(S, U, c) : c \in {NL, G}}
      ELSE IF o.trap THEN {Crash(S)}
      ELSE IF o.found
        THEN MayTrap(S,
               line_at_point([S EXCEPT !.point_offs = Sz(o.nl - S.queue),
                                       !.stack = <<"trunc_loop">> \o S.stack], <<>>),
               o.acc)
      ELSE IF o2.trap THEN {Crash(S)}
      ELSE IF ~o2.found
        THEN \* this is the last line
             MayTrap(S,
               line_at_point(upd_done([S EXCEPT !.buf = b2, !.point_offs = pt2,
                                                !.p = Off(pt2)]), <<>>),
               oobw)
      ELSE IF Wrapped(n3) THEN {Crash(S)}
      ELSE MayTrap(S,
             line_at_point([S EXCEPT !.buf = b3, !.point_offs = pt2,
                                     !.stack = <<"trunc_loop">> \o S.stack], <<>>),
             Worst({oobw, Acc(S.end, Off(pt2), n3), Acc(S.end, o2.nl + 1, n3)}))

(************************ __argp_fmtstream_ensure **************************)
\* the call returns r to the client
Return(S, r) == [S EXCEPT !.pc = "return", !.stack = <<>>, !.rv = r]

\* back in the client
Idle(S) ==
  [S EXCEPT !.pc = "idle", !.call = "none", !.rv = 0, !.errno = "0", !.amount = 0,
            !.ens_rv = 0,
            !.fmt = <<>>,
            !.size_guess = 0, !.tries = 0]

\* a faulty ensure that flushes whether or not there is room
ensure_test_eager(S) == update_enter([S EXCEPT !.stack = <<"ensure_flush">> \o S.stack])

\* "if ((size_t) (fs->end - fs->p) < amount)": flush via update, or return 1
ensure_test(S) ==
  IF Sz(S.end - S.p) < S.amount
    THEN update_enter([S EXCEPT !.stack = <<"ensure_flush">> \o S.stack])
    ELSE {Ret([S EXCEPT !.ens_rv = 1])}

\* a faulty growth to amount bytes instead of old size + amount
ensure_grow_exact(F) ==
  IF Sz(F.end) < F.amount
    THEN LET nomem == [F EXCEPT !.errno = "ENOMEM", !.ens_rv = 0]
         IN  IF F.amount > MaxAlloc THEN {Ret([nomem EXCEPT !.faulted = TRUE])}
             ELSE {Ret([F EXCEPT !.end = F.amount, !.p = 0, !.ens_rv = 1])}
    ELSE {Ret([F EXCEPT !.ens_rv = 1])}

\* a faulty ensure that never grows the buffer
ensure_grow_keep(F) == {Ret([F EXCEPT !.ens_rv = 1])}

\* after a full write: grow the buffer if it is smaller than amount
ensure_grow(F) ==
  IF Sz(F.end) < F.amount
    THEN LET old_size == Sz(F.end)
             new_size == Sz(old_size + F.amount)
             nomem    == [F EXCEPT !.errno = "ENOMEM", !.ens_rv = 0]
             failed   == Ret([nomem EXCEPT !.faulted = TRUE])   \* realloc returned NULL
         IN  IF new_size < old_size THEN {Ret(nomem)}
             ELSE IF new_size > MaxAlloc THEN {failed}
             ELSE {Ret([F EXCEPT !.end = new_size, !.p = 0, !.ens_rv = 1]), failed}
    ELSE {Ret([F EXCEPT !.ens_rv = 1])}

\* the counts a sink may accept of an n byte write: all of it or, failing,
\* nothing or all but the last bytes
Accepted(n) == {w \in 0..n : w = n \/ w = 0 \/ n - w <= MaxUnwritten}

\* fwrite of [buf, p), then the full-write and short-write branches
ensure_flush(S) ==
  IF Wrapped(S.p) THEN {Crash(S)}
  ELSE UNION {
    LET W   == [S EXCEPT !.stream = S.stream \o Bytes(S.buf, 0, wrote)]
        oob == Acc(S.end, 0, wrote)
    IN  IF wrote = S.p
          THEN UNION {MayTrap(S, T, oob) :
                        T \in ensure_grow([W EXCEPT !.p = 0, !.point_offs = 0])}
          ELSE MayTrap(S,
                 Ret([W EXCEPT !.p = S.p - wrote,
                               !.point_offs = Sz(S.point_offs - wrote),
                               !.buf = MemMove(S.buf, S.end, 0, wrote, Sz(S.p - wrote)),
                               !.ens_rv = 0, !.faulted = TRUE]),
                 Worst({oob, Acc(S.end, wrote, S.p - wrote)}))
    : wrote \in Accepted(S.p) }

(************************ __argp_fmtstream_printf **************************)
\* a faulty printf without the retry: it advances p by what fitted
printf_format_once(S) ==
  IF S.ens_rv = 0 THEN {Return(S, -1)}
  ELSE
    LET avail == Sz(S.end - S.p)
        out   == Len(S.fmt)
        nput  == IF avail = 0 THEN 0 ELSE Min(out, avail - 1)
        b1    == IF avail = 0 THEN S.buf
                 ELSE Wr(MemCpy(S.buf, S.end, S.p, SubSeq(S.fmt, 1, nput)),
                         S.end, S.p + nput, NUL)
        oob   == IF avail > 0 THEN Acc(S.end, S.p, nput + 1) ELSE 0
    IN  MayTrap(S, Return([S EXCEPT !.buf = b1, !.p = S.p + nput,
                                    !.input = S.input \o SubSeq(S.fmt, 1, nput)], nput),
                oob)

\* after ensure: vsnprintf into [p, end), then retry with a larger guess or
\* advance p
printf_format(S) ==
  IF S.ens_rv = 0 THEN {Return(S, -1)}
  ELSE
    LET avail == Sz(S.end - S.p)
        out   == Len(S.fmt)
        nput  == IF avail = 0 THEN 0 ELSE Min(out, avail - 1)
        b1    == IF avail = 0 THEN S.buf
                 ELSE Wr(MemCpy(S.buf, S.end, S.p, SubSeq(S.fmt, 1, nput)),
                         S.end, S.p + nput, NUL)
        oob   == IF avail > 0 THEN Acc(S.end, S.p, nput + 1) ELSE 0
    IN  IF Sz(out) >= avail
          THEN MayTrap(S, [S EXCEPT !.buf = b1, !.size_guess = out + 1,
                                    !.amount = out + 1, !.tries = S.tries + 1,
                                    !.pc = "ensure", !.stack = <<"printf_fmt">>],
                       oob)
          ELSE MayTrap(S, Return([S EXCEPT !.buf = b1, !.p = S.p + out,
                                           !.input = S.input \o S.fmt], out),
                       oob)

(************************* __argp_fmtstream_free ***************************)
\* after update: write what is left (result ignored), release everything
free_flush(S) ==
  IF Wrapped(S.p) THEN {Crash(S)}
  ELSE UNION {
    MayTrap(S,
      [Idle(S) EXCEPT !.pc = "freed", !.stack = <<>>, !.buf = <<>>, !.p = 0, !.end = 0,
                         !.point_offs = 0, !.point_col = 0, !.fill = U,
                         !.stream = S.stream \o Bytes(S.buf, 0, wrote),
                         !.faulted = S.faulted \/ wrote < S.p],
      Acc(S.end, 0, wrote))
    : wrote \in Accepted(S.p) }

(******************************* inputs ************************************)
\* a text n bytes long: a one-letter line, then letters up to a last blank
Long(n) == [k \in 1..n |-> IF k = 2 THEN NL ELSE IF k = n - 1 THEN SP ELSE "a"]

\* lmargin, rmargin, wmargin of the streams explored
Margins == {<<0, 3, 0>>, <<1, 4, 2>>, <<0, 1, -1>>, <<1, 2, -1>>}

\* a text of three words
Words == <<"a", SP, "a", "a", SP, "a">>

\* formatted texts a printf call may produce
Texts ==
  UNION {[1..n -> {"a", SP, NL}] : n \in 0..MaxLen}
  \cup {Long(n) : n \in {199, 200}}
  \cup {Words}

\* amounts a client passes to ensure
Amounts == {1, INIT_BUF_SIZE, SIZE_MOD - 1}

(******************************** actions **********************************)
Init ==
  /\ buf = <<>> /\ p = 0 /\ end = INIT_BUF_SIZE
  /\ point_offs = 0 /\ point_col = 0
  /\ \E m \in Margins : lmargin = m[1] /\ rmargin = m[2] /\ wmargin = m[3]
  /\ stream = <<>> /\ pc = "idle" /\ stack = <<>>
  /\ queue = 0 /\ proc_len = 0 /\ lns = <<>> /\ col = 0 /\ i = 0
  /\ uwl_i = 0 /\ cur_col = 0 /\ last_option = 0
  /\ suffix = <<>> /\ space_needed = 0 /\ lap_queue = 0
  /\ amount = 0 /\ ens_rv = 0 /\ errno = "0"
  /\ fmt = <<>> /\ size_guess = 0 /\ tries = 0
  /\ ub = FALSE /\ appends = 0
  /\ call = "none" /\ input = <<>> /\ rv = 0 /\ updates = 0 /\ faulted = FALSE
  /\ fill = U

\* client: __argp_fmtstream_printf (fs, fmt, ...) formatting to the text s,
\* up to the result of its first test in ensure
Printf(s) ==
  /\ pc = "idle" /\ appends < MaxAppends
  /\ \E T \in ensure_test([cur EXCEPT !.call = "printf", !.stack = <<"printf_fmt">>,
                                      !.amount = PRINTF_SIZE_GUESS,
                                      !.size_guess = PRINTF_SIZE_GUESS,
                                      !.fmt = s, !.tries = 0, !.appends = appends + 1,
                                      !.updates = 0]) : Becomes(T)

\* client: __argp_fmtstream_ensure (fs, a), up to the result of its test
Ensure(a) ==
  /\ pc = "idle"
  /\ \E T \in ensure_test([cur EXCEPT !.call = "ensure", !.stack = <<"ret_ensure">>,
                                      !.amount = a, !.updates = 0]) : Becomes(T)

\* client: __argp_fmtstream_update (fs), up to its loops or its return
Update ==
  /\ pc = "idle"
  /\ \E T \in update_enter([cur EXCEPT !.call = "update", !.stack = <<"ret_update">>]) :
       Becomes(T)

\* client: __argp_fmtstream_free (fs), up to the loops of update or the flush
Free ==
  /\ pc = "idle"
  /\ \E T \in update_enter([cur EXCEPT !.call = "free", !.stack = <<"free_flush">>,
                                       !.updates = 0]) : Becomes(T)

\* ensure called again by the retry loop of printf
EnsureTest    == pc = "ensure" /\ \E T \in ensure_test(cur) : Becomes(T)
EnsureFlush   == pc = "ensure_flush" /\ \E T \in ensure_flush(cur) : Becomes(T)
PrintfFormat  == pc = "printf_fmt" /\ \E T \in printf_format(cur) : Becomes(T)
UwlShim       == pc = "uwl_shim" /\ \E T \in uwl_step(cur) : Becomes(T)
WrapLoop      == pc = "wrap_loop" /\ \E T \in wrap_step(cur) : Becomes(T)
TruncLoop     == pc = "trunc_loop" /\ \E T \in trunc_step(cur) : Becomes(T)
LineAtPoint   == pc = "line_at_point" /\ \E T \in lap_step(cur) : Becomes(T)
FreeFlush     == pc = "free_flush" /\ \E T \in free_flush(cur) : Becomes(T)
\* the client goes on after a call returned
Returned      == pc = "return" /\ Becomes(Idle(cur))

Next ==
  \/ \E s \in Texts : Printf(s)
  \/ \E a \in Amounts : Ensure(a)
  \/ Update
  \/ Free
  \/ EnsureTest
  \/ EnsureFlush
  \/ PrintfFormat
  \/ UwlShim
  \/ WrapLoop
  \/ TruncLoop
  \/ LineAtPoint
  \/ FreeFlush
  \/ Returned

Spec == Init /\ [][Next]_vars

\* the positions inside the library, and a step that leaves one of them
Busy ==
  {"ensure", "ensure_flush", "printf_fmt", "uwl_shim", "wrap_loop", "trunc_loop",
   "line_at_point", "free_flush"}

Advance == pc \in Busy /\ pc' \in Busy \cup {"idle", "return", "freed", "crashed"}

\* a call that has been entered keeps executing: the program does not stay
\* at one position of the library for ever (the client may stop calling)
LiveSpec == Spec /\ WF_pc(Advance)

(****************************** properties *********************************)
\* s without its blanks and line terminators
Strip(s) == SelectSeq(s, LAMBDA c : c # SP /\ c # NL)

\* s has more than w bytes in a row without a line terminator
LongLine(s, w) == \E k \in 1..(Len(s) - w) : \A j \in 0..w : s[k + j] # NL

\* index of the first line terminator of s, or Len(s) + 1
NLPos(s) ==
  LET H == {k \in 1..Len(s) : s[k] = NL}
  IN  IF H = {} THEN Len(s) + 1 ELSE CHOOSE k \in H : \A j \in H : k <= j

\* n blanks
Pad(n) == [k \in 1..n |-> SP]

\* s with every line break (a terminator and the m blanks of the left margin)
\* turned back into one blank; a terminator without its margin stays
RECURSIVE Unbreak(_, _)
Unbreak(s, m) ==
  IF s = <<>> THEN <<>>
  ELSE IF Head(s) = NL /\ Len(s) >= 1 + m /\ SubSeq(s, 2, 1 + m) = Pad(m)
    THEN <<SP>> \o Unbreak(SubSeq(s, 2 + m, Len(s)), m)
  ELSE <<Head(s)>> \o Unbreak(Tail(s), m)

\* no write to the sink and no allocation failed, no access left the allocation
Clean == ~faulted /\ ~ub

\* what an update call may change: the buffer, the cursors, the sink
View(S) == <<S.buf, S.p, S.point_offs, S.point_col, S.stream>>

\* the bytes the sink accepted in this step
sunk == Len(stream') - Len(stream)

\* C1: in wrap mode, after appends and destroy on a sink that accepts every
\* write, the sink holds every non-whitespace byte of the appended input
\* exactly once and in order.
C1_NoByteLoss ==
  (pc = "freed" /\ wmargin >= 0 /\ Clean) => Strip(stream) = Strip(input)

\* C2: whenever ensure (fs, amount) returns 1, to the client or to printf, at
\* least amount bytes are free between p and end (in an execution whose
\* accesses all stayed inside the allocation).
C2_EnsureRoom ==
  (ens_rv = 1 /\ ~ub /\ ((call = "ensure" /\ pc = "return") \/ pc = "printf_fmt"))
    => end - p >= amount

\* ensure has flushed pending text, grown the buffer and returned 1
C2_Grown ==
  /\ pc = "printf_fmt" /\ ens_rv = 1 /\ amount = INIT_BUF_SIZE + 1
  /\ end = 2 * INIT_BUF_SIZE + 1 /\ stream # <<>>

\* C3: between the client's calls (create, printf, ensure, update) the cursors
\* satisfy 0 <= point_offs <= p <= end.
C3_CursorOrder ==
  (pc = "idle" /\ Clean) => (0 <= point_offs /\ point_offs <= p /\ p <= end)

\* C4: in truncate mode every line the sink received has at most rmargin
\* bytes before its terminator.
C4_LineBound ==
  (wmargin = -1 /\ Clean) => ~LongLine(stream, rmargin)

\* C5: in truncate mode, after destroy, an input whose first line is longer
\* than rmargin and ends in a real terminator reaches the sink as the first
\* rmargin bytes of that line and one terminator; when the input ends with
\* that terminator this (and at most the left margin) is all the sink holds.
C5_Truncated ==
  LET k == NLPos(input)
      t == SubSeq(input, 1, rmargin) \o <<NL>>
  IN  (pc = "freed" /\ wmargin = -1 /\ Clean /\ k <= Len(input) /\ k - 1 > rmargin)
        => /\ Len(stream) >= Len(t) /\ SubSeq(stream, 1, Len(t)) = t
           /\ k = Len(input) => stream \in {t, t \o Pad(lmargin)}

\* C6: in truncate mode, when memchr finds a terminator within the next
\* rmargin - point_col bytes, point_offs is advanced to just past that
\* terminator and no buffer byte changes.
C6_FoundAdvance ==
  [][LET o == MemChr(buf, end, Off(point_offs), Sz(rmargin - point_col))
     IN  (pc = "trunc_loop" /\ pc' = "line_at_point" /\ ~ub' /\ o.found)
           => (point_offs' = o.nl + 1 /\ buf' = buf)]_vars

\* C7: in wrap mode, for an input of one line, after destroy every line of
\* the sink after the first begins with exactly lmargin blanks and the rest
\* is the input text: undoing the breaks gives the input back.
C7_MarginAndText ==
  (pc = "freed" /\ wmargin >= 0 /\ Clean /\ NLPos(input) > Len(input)
     /\ Len(input) <= MaxAppends * MaxLen)
    => Unbreak(stream, lmargin) = input

\* s is made of words of at most w bytes, separated by single blanks
WordsFit(s, w) ==
  /\ \A k \in 1..Len(s) : s[k] # NL
  /\ \A k \in 1..Len(s) : s[k] = SP => (1 < k /\ k < Len(s) /\ s[k + 1] # SP)
  /\ ~\E k \in 1..(Len(s) - w) : \A j \in 0..w : s[k + j] # SP

\* C8: a successful printf of a text of L bytes returns L, advances p by L with
\* the L bytes at [old p, new p), after at most one retry, whose guess is L + 1.
C8_PrintfExact ==
  [][(pc = "printf_fmt" /\ pc' = "return" /\ rv' >= 0 /\ ~ub')
       => /\ rv' = Len(fmt) /\ p' = p + Len(fmt)
          /\ SubSeq(buf', p + 1, p + Len(fmt)) = fmt
          /\ tries' <= 1 /\ (tries' = 1 => size_guess' = Len(fmt) + 1)]_vars

\* printf returned the length of a text longer than the initial buffer, after
\* one retry
C8_LongText ==
  pc = "return" /\ call = "printf" /\ rv = INIT_BUF_SIZE /\ tries = 1 /\ p >= rv

\* C9: when the sink accepts only w < p bytes in ensure, ensure fails, the
\* rest is moved to the start of the buffer in order, and p and point_offs
\* are each reduced by w, point_offs not going below 0.
C9_ShortWrite ==
  [][(pc = "ensure_flush" /\ pc' # "crashed" /\ sunk < p)
       => /\ ens_rv' = 0 /\ p' = p - sunk
          /\ stream' \o Bytes(buf', 0, p') = stream \o Bytes(buf, 0, p)
          /\ Off(point_offs') = Off(point_offs) - sunk
          /\ Off(point_offs') >= 0]_vars

C11_WrapWidth ==
  (pc = "freed" /\ wmargin >= 0 /\ Clean /\ WordsFit(input, rmargin - lmargin))
    => ~LongLine(stream, rmargin)

\* C12: the insertion of line_at_point (fs, suffix) leaves, from the old
\* point_offs on, the suffix, the lmargin blanks and then the bytes that were
\* at [point_offs, p); p has grown by the number of inserted bytes, point_offs
\* has moved past them and point_col is lmargin.
C12_Splice ==
  [][LET cnt == IF point_col # -1 THEN lmargin ELSE 0
         ins == Len(suffix) + cnt
         n   == p - point_offs
     IN  (pc = "line_at_point" /\ ~(p + Off(space_needed) > end)
            /\ pc' # "crashed" /\ ~ub' /\ n >= 0)
           => /\ Bytes(buf', point_offs, ins + n)
                   = suffix \o Pad(cnt) \o Bytes(buf, point_offs, n)
              /\ p' = p + ins
              /\ point_offs' = point_offs + ins
              /\ point_col' = lmargin]_vars

\* C13: a reclamation step of line_at_point conserves content: what the
\* sink accepts in the step, followed by [0, p) after it, is [0, p) before it
\* (with the byte before queue turned into a terminator when [0, point_offs)
\* holds none), and p and point_offs are reduced by the flushed length.
C13_Reclaim ==
  [][LET o    == MemChr(buf, end, 0, point_offs)
         base == IF o.found THEN buf ELSE Wr(buf, end, lap_queue - 1, NL)
     IN  (pc = "line_at_point" /\ p + Off(space_needed) > end
            /\ pc' = "line_at_point" /\ ~ub' /\ fill' = fill /\ sunk > 0)
           => /\ stream' = stream \o Bytes(base, 0, sunk)
              /\ Bytes(buf', 0, p') = Bytes(base, sunk, p - sunk)
              /\ p' = p - sunk
              /\ point_offs' = point_offs - sunk]_vars

\* C14: a step of the rewrite pass or of line_at_point that flushes nothing
\* changes no byte of the processed prefix [0, point_offs).
C14_PrefixKept ==
  [][(pc \in {"uwl_shim", "wrap_loop", "trunc_loop", "line_at_point"}
        /\ pc' # "crashed" /\ ~ub' /\ fill' = fill /\ stream' = stream)
       => \A j \in 0..(Min(point_offs, p) - 1) : Rd(buf', j) = Rd(buf, j)]_vars

\* the rewrite pass or a line_at_point call it made is executing
InUpdate == pc \in {"uwl_shim", "wrap_loop", "trunc_loop", "line_at_point"}

\* C15: the rewrite pass, with every line_at_point call it makes, terminates
\* (in an execution whose accesses all stay inside the allocation).
C15_UpdateEnds == InUpdate ~> (~InUpdate \/ ub)

\* the stream __argp_make_fmtstream returns for the margins m
Fresh(m) ==
  [buf |-> <<>>, p |-> 0, end |-> INIT_BUF_SIZE, point_offs |-> 0, point_col |-> 0,
   lmargin |-> m[1], rmargin |-> m[2], wmargin |-> m[3], stream |-> <<>>,
   pc |-> "idle", stack |-> <<>>, queue |-> 0, proc_len |-> 0, lns |-> <<>>,
   col |-> 0, i |-> 0, uwl_i |-> 0, cur_col |-> 0, last_option |-> 0,
   suffix |-> <<>>, space_needed |-> 0, lap_queue |-> 0, amount |-> 0,
   ens_rv |-> 0, errno |-> "0", fmt |-> <<>>, size_guess |-> 0, tries |-> 0,
   ub |-> FALSE, appends |-> 0, input |-> <<>>, rv |-> 0, updates |-> 0,
   faulted |-> FALSE, fill |-> U, call |-> "none"]

\* the successors of S inside a call
StepSet(S) ==
  CASE S.pc = "ensure"        -> ensure_test(S)
    [] S.pc = "ensure_flush"  -> ensure_flush(S)
    [] S.pc = "printf_fmt"    -> printf_format(S)
    [] S.pc = "uwl_shim"      -> uwl_step(S)
    [] S.pc = "wrap_loop"     -> wrap_step(S)
    [] S.pc = "trunc_loop"    -> trunc_step(S)
    [] S.pc = "line_at_point" -> lap_step(S)
    [] S.pc = "free_flush"    -> free_flush(S)
    [] S.pc = "return"        -> {Idle(S)}
    [] OTHER                  -> {}

\* the one successor in X without a failed write or allocation and without an
\* access outside the allocation; S marked "stuck" when there is not just one
Pick(X, S) ==
  LET Q == {T \in X : ~T.faulted /\ ~T.ub /\ T.pc # "crashed"}
  IN  IF Cardinality(Q) = 1 THEN CHOOSE T \in Q : TRUE ELSE [S EXCEPT !.pc = "stuck"]

\* S run to the end of its call
RECURSIVE Finish(_, _)
Finish(S, fuel) ==
  IF S.pc \in {"idle", "freed", "stuck"} THEN S
  ELSE IF fuel = 0 THEN [S EXCEPT !.pc = "stuck"]
  ELSE Finish(Pick(StepSet(S), S), fuel - 1)

\* create with the margins m, printf the text s in one call, free
Whole(m, s) ==
  LET F == Fresh(m)
      A == Finish(Pick(ensure_test([F EXCEPT !.call = "printf", !.stack = <<"printf_fmt">>,
                                             !.amount = PRINTF_SIZE_GUESS,
                                             !.size_guess = PRINTF_SIZE_GUESS,
                                             !.fmt = s]), F), MaxSteps)
  IN  IF A.pc # "idle" THEN A
      ELSE Finish(Pick(update_enter([A EXCEPT !.call = "free",
                                              !.stack = <<"free_flush">>]), A), MaxSteps)

\* C16: in wrap mode, after destroy on a sink that accepts every write, the
\* sink holds what it holds when the whole input is appended by one printf
\* and destroyed, however the input was split over printf calls and whatever
\* update and ensure calls came between them.
C16_SplitFree ==
  (pc = "freed" /\ wmargin >= 0 /\ Clean /\ Len(input) <= MaxAppends * MaxLen)
    => LET W == Whole(<<lmargin, rmargin, wmargin>>, input)
       IN  W.pc = "freed" => stream = W.stream

\* C17: the capacity never shrinks and changes only in ensure after a full
\* flush (p = buf, point_offs = 0), to exactly old size + amount; when the
\* buffer is too small after a full flush and is not grown, or ENOMEM is set,
\* ensure fails with ENOMEM, the capacity is unchanged and every buffered
\* byte has been written to the sink.
C17_Growth ==
  [][(pc' \notin {"crashed", "freed"} /\ ~ub')
       => /\ end' >= end
          /\ end' # end
               => /\ pc = "ensure_flush" /\ sunk = p /\ ens_rv' = 1
                  /\ p' = 0 /\ point_offs' = 0 /\ end' = end + amount
          /\ (pc = "ensure_flush"
                /\ (errno' = "ENOMEM" \/ (sunk = p /\ end < amount /\ end' = end)))
               => /\ ens_rv' = 0 /\ errno' = "ENOMEM" /\ end' = end
                  /\ stream' = stream \o Bytes(buf, 0, p)]_vars

\* ensure failed with ENOMEM on a buffer that had grown before, after it
\* wrote the pending text to the sink
C17_GrowFailed ==
  /\ pc = "return" /\ call = "ensure" /\ rv = 0 /\ errno = "ENOMEM"
  /\ end = 2 * INIT_BUF_SIZE + 1 /\ p = 0 /\ Len(stream) >= INIT_BUF_SIZE

\* C18: when at least amount bytes are free, ensure (called by the client or
\* by printf) returns 1 at once: no rewrite pass, nothing written, p,
\* point_offs, point_col, end and every buffer byte unchanged.
C18_NoOp ==
  [][(/\ ~ub
       /\ \/ pc = "idle" /\ call' \in {"ensure", "printf"} /\ pc' # "crashed"
                        /\ end - p >= amount'
          \/ pc = "ensure" /\ end - p >= amount)
       => /\ pc' \in {"return", "printf_fmt"} /\ ens_rv' = 1
          /\ View(cur)' = View(cur) /\ end' = end]_vars

\* ensure returned 1 on a stream that holds unprocessed text and has written
\* nothing
C18_Room ==
  /\ pc = "return" /\ call = "ensure" /\ rv = 1 /\ amount = 1
  /\ p > 0 /\ point_offs = 0 /\ stream = <<>>
====
